---- MODULE Spec2Model ----
(***************************************************************************)
(* The interaction controller of NexoraSmartAssistant: the useRealtimeVoice *)
(* hook (latest revision, the one App.tsx is written against) together     *)
(* with App.handleOrbClick, the browser's speech recognizer, microphone,   *)
(* timers, animation frames, fetch and audio elements as the environment.  *)
(* Every handler is one atomic action (the UI event loop runs callbacks to *)
(* completion); an await splits a function into one action per segment.    *)
(***************************************************************************)
EXTENDS Integers, FiniteSets, Sequences, TLC

\* ---- bounds of the model ------------------------------------------------
MaxStarts == 2      \* startInteraction invocations explored
MaxCalls == 2       \* webhook requests explored
MaxFinals == 2      \* final results one recognizer run may deliver when it repeats them
MaxBytes == 4       \* length of the byte sequences encoded and decoded
MaxMessages == 2    \* messages the AI service delivers to the gateway
MaxToolCalls == 2   \* function calls in one message of the AI service
SCALE == 100        \* amplitudes and AudioLevel are counted in units of 1/SCALE
BufLen == 2         \* samples in the analyser's time-domain buffer

\* ---- program constants --------------------------------------------------
WATCHDOG_MS == 10000        \* window.setTimeout(..., 10000)
SILENCE_MS == 1500          \* silenceDuration > 1500
GAIN == 8           \* (rms * 8)
THRESHOLD == 2              \* threshold = 0.02, rms scaled by 100

StartIds == 1..MaxStarts
CallIds == 1..MaxCalls

\* rms samples (scaled by 100): silence, exactly the threshold, above it
RmsSamples == {0, THRESHOLD, THRESHOLD + 1}

\* event.error codes of the recognizer other than 'aborted'
ErrorCodes == {"not-allowed", "no-speech", "network", "audio-capture"}

\* What the webhook may answer.  fetch: whether the request resolved;
\* ok: response.ok; json: content-type includes application/json;
\* text: the JSON body (empty, unparsable, or an object); audio / message:
\* the object's fields; bytes: byteLength of a binary body.
Responses ==
  { [fetch |-> FALSE, ok |-> FALSE, json |-> FALSE, text |-> "empty", audio |-> "absent", message |-> FALSE, bytes |-> 0],
    [fetch |-> TRUE, ok |-> FALSE, json |-> FALSE, text |-> "empty", audio |-> "absent", message |-> FALSE, bytes |-> 0],
    [fetch |-> TRUE, ok |-> FALSE, json |-> TRUE, text |-> "object", audio |-> "absent", message |-> TRUE, bytes |-> 0],
    [fetch |-> TRUE, ok |-> TRUE, json |-> TRUE, text |-> "empty", audio |-> "absent", message |-> FALSE, bytes |-> 0],
    [fetch |-> TRUE, ok |-> TRUE, json |-> TRUE, text |-> "invalid", audio |-> "absent", message |-> FALSE, bytes |-> 0],
    [fetch |-> TRUE, ok |-> TRUE, json |-> TRUE, text |-> "object", audio |-> "base64", message |-> FALSE, bytes |-> 0],
    [fetch |-> TRUE, ok |-> TRUE, json |-> TRUE, text |-> "object", audio |-> "base64", message |-> TRUE, bytes |-> 0],
    [fetch |-> TRUE, ok |-> TRUE, json |-> TRUE, text |-> "object", audio |-> "malformed", message |-> FALSE, bytes |-> 0],
    [fetch |-> TRUE, ok |-> TRUE, json |-> TRUE, text |-> "object", audio |-> "absent", message |-> TRUE, bytes |-> 0],
    [fetch |-> TRUE, ok |-> TRUE, json |-> TRUE, text |-> "object", audio |-> "absent", message |-> FALSE, bytes |-> 0],
    [fetch |-> TRUE, ok |-> TRUE, json |-> FALSE, text |-> "empty", audio |-> "absent", message |-> FALSE, bytes |-> 0],
    [fetch |-> TRUE, ok |-> TRUE, json |-> FALSE, text |-> "empty", audio |-> "absent", message |-> FALSE, bytes |-> 1] }

VARIABLES
  \* React state of the hook (the value the next render will show)
  isListening, isProcessing, isPlaying, audioLevel, transcript, error,
  \* what the last committed render showed; closures read these
  rendered,
  \* refs
  isListeningRef, hasSpokenRef, sinceSpeech,
  analyserRef, streamRef, requestAnimFrameRef, timerRef, audioPlayerRef,
  \* browser objects the refs point to
  stream,       \* microphone stream acquired by each start
  frames,       \* sampler loops with an animation frame scheduled
  timers,       \* watchdog timers pending (by the start that armed them)
  timerLeft,    \* ms until each pending timer is due
  audio,        \* the audio element created for each webhook call
  recognition,  \* the recognizer: "idle", "running", "stopping"
  recFinals,    \* final results delivered in the current recognizer run
  abortPending, \* an 'aborted' error event is queued
  starts,       \* each startInteraction: "none", "awaitMic", "done", "failed"
  calls,        \* each webhook call: "none", "inflight", "played", "failed"
  \* the environment the page runs in
  isMobile, supported, webhookUrl,
  finalsPerRun, \* final results the recognizer delivers in one run, at most
  \* history, for stating the claims
  ev,           \* the handler that ran last and its input
  recCalls,     \* webhook calls issued for the current recognizer run
  quiet,        \* no final transcript and no error since Listening was entered
  listenElapsed,\* ms since Listening was entered
  spoke,        \* calls whose payload made the controller enter Speaking
  cancelledCalls,  \* calls pending or playing when a stop or a new start was called
  cancelledStarts, \* starts awaiting the microphone when stopInteraction was called
  \* the audio payload of a JSON response
  bytes,        \* the bytes the server encoded
  base64,       \* json.audio, a sequence of characters
  blob,         \* the bytes of the Blob base64ToBlob returned
  b64pc,        \* "idle", "input", "encoded", "decoded"
  \* the gateway (one client connection and its AI session)
  gwMessages,   \* the messages the AI service delivered, in order
  gwPc,         \* where the onmessage handler of each message stands
  posts,        \* the POST requests sent to the webhook, in order
  toolResponses,\* the tool responses sent to the AI service, in order
  webhookReplies, \* what the webhook did with the request of each call
  wsSent,       \* what was sent to the client, in order
  clientOpen,   \* the client connection is open
  \* the smoothed amplitude, as a number
  level         \* AudioLevel in units of 1/SCALE

hookVars == << isListening, isProcessing, isPlaying, audioLevel, transcript, error,
           rendered, isListeningRef, hasSpokenRef, sinceSpeech,
           analyserRef, streamRef, requestAnimFrameRef, timerRef, audioPlayerRef,
           stream, frames, timers, timerLeft, audio, recognition, recFinals,
           abortPending, starts, calls, isMobile, supported, webhookUrl,
           finalsPerRun, ev, recCalls, quiet, listenElapsed, spoke,
               cancelledCalls, cancelledStarts >>

gatewayVars == << gwMessages, gwPc, posts, toolResponses, webhookReplies, wsSent, clientOpen >>

vars == << hookVars, bytes, base64, blob, b64pc, gatewayVars, level >>

\* The fields a handler may write, gathered so that a handler is a function
\* from state to state and the calls it makes compose in program order.
Cur ==
  [ isListening |-> isListening, isProcessing |-> isProcessing, isPlaying |-> isPlaying,
    audioLevel |-> audioLevel, transcript |-> transcript, error |-> error,
    hasSpokenRef |-> hasSpokenRef, sinceSpeech |-> sinceSpeech,
    analyserRef |-> analyserRef, streamRef |-> streamRef,
    requestAnimFrameRef |-> requestAnimFrameRef, timerRef |-> timerRef,
    audioPlayerRef |-> audioPlayerRef, stream |-> stream, frames |-> frames,
    timers |-> timers, timerLeft |-> timerLeft, audio |-> audio,
    recognition |-> recognition, recFinals |-> recFinals, abortPending |-> abortPending,
    starts |-> starts, calls |-> calls, recCalls |-> recCalls, quiet |-> quiet,
    listenElapsed |-> listenElapsed, spoke |-> spoke,
    cancelledCalls |-> cancelledCalls, cancelledStarts |-> cancelledStarts,
    vad |-> FALSE ]

Commit(S) ==
  /\ isListening' = S.isListening /\ isProcessing' = S.isProcessing
  /\ isPlaying' = S.isPlaying /\ audioLevel' = S.audioLevel
  /\ transcript' = S.transcript /\ error' = S.error
  /\ hasSpokenRef' = S.hasSpokenRef
  /\ sinceSpeech' = (IF S.hasSpokenRef THEN S.sinceSpeech ELSE 0)
  /\ analyserRef' = S.analyserRef /\ streamRef' = S.streamRef
  /\ requestAnimFrameRef' = S.requestAnimFrameRef /\ timerRef' = S.timerRef
  /\ audioPlayerRef' = S.audioPlayerRef /\ stream' = S.stream /\ frames' = S.frames
  /\ timers' = S.timers /\ timerLeft' = S.timerLeft /\ audio' = S.audio
  /\ recognition' = S.recognition /\ recFinals' = S.recFinals
  /\ abortPending' = S.abortPending /\ starts' = S.starts /\ calls' = S.calls
  /\ recCalls' = S.recCalls /\ spoke' = S.spoke
  /\ cancelledCalls' = S.cancelledCalls /\ cancelledStarts' = S.cancelledStarts
  /\ quiet' = (S.isListening /\ S.quiet)
  /\ listenElapsed' = (IF S.isListening THEN S.listenElapsed ELSE 0)
  /\ UNCHANGED << isMobile, supported, webhookUrl, finalsPerRun >>
  /\ UNCHANGED << bytes, base64, blob, b64pc, gatewayVars, level >>

Event(op, id, arg) == [op |-> op, id |-> id, arg |-> arg]

Min(a, b) == IF a < b THEN a ELSE b

\* ---- browser primitives -------------------------------------------------

\* if (timerRef.current) clearTimeout(timerRef.current)
clearTimeout(S) ==
  [S EXCEPT !.timers = @ \ {S.timerRef},
            !.timerLeft = [i \in StartIds |-> IF i = S.timerRef THEN 0 ELSE @[i]]]

\* recognition.stop(): a running recognizer stops capturing and finalises
recognitionStop(r) == IF r = "running" THEN "stopping" ELSE r

\* streamRef.current.getTracks().forEach(track => track.stop())
tracksStop(st, ref) ==
  [i \in StartIds |-> IF i = ref /\ st[i] = "live" THEN "stopped" ELSE st[i]]

\* ---- the hook -----------------------------------------------------------

\* the webhook calls awaited, and those whose audio is loading or playing
PendingCalls(S) ==
  {c \in CallIds : S.calls[c] = "inflight" \/ S.audio[c] \in {"loading", "playing"}}

stopInteraction(S) ==
  LET S1 == clearTimeout(S)
  IN [S1 EXCEPT !.recognition = IF supported THEN recognitionStop(@) ELSE @,
                !.stream = tracksStop(@, S.streamRef),
                !.frames = @ \ {S.requestAnimFrameRef},
                !.isListening = FALSE,
                !.audioLevel = 0,
                !.cancelledCalls = @ \cup PendingCalls(S),
                !.cancelledStarts = @ \cup {i \in StartIds : S.starts[i] = "awaitMic"}]

\* prev * 0.8 + (rms * 8) * 0.2, kept as its sign: 0 exactly when prev and
\* rms are both 0, positive (1) otherwise
Smooth(prev, rms) == IF prev = 0 /\ rms = 0 THEN 0 ELSE 1

\* analyzeAudioLevel with the silence branch only logging: the sampler tracks
\* voiced input but never calls stopInteraction.
analyzeAudioLevel_SilenceIgnored(S, loop, rms) ==
  IF ~S.analyserRef THEN S
  ELSE
    LET S1 == [S EXCEPT !.audioLevel = Smooth(@, rms)]
        S2 == IF isListeningRef /\ rms > THRESHOLD
                THEN [S1 EXCEPT !.sinceSpeech = 0, !.hasSpokenRef = TRUE]
              ELSE S1
    IN [S2 EXCEPT !.frames = @ \cup {loop}, !.requestAnimFrameRef = loop]

\* One run of analyzeAudioLevel for sampler loop `loop` reading sample rms.
analyzeAudioLevel(S, loop, rms) ==
  IF ~S.analyserRef THEN S
  ELSE
    LET S1 == [S EXCEPT !.audioLevel = Smooth(@, rms)]
        S2 == IF ~isListeningRef THEN S1
              ELSE IF rms > THRESHOLD
                THEN [S1 EXCEPT !.sinceSpeech = 0, !.hasSpokenRef = TRUE]
              ELSE IF S1.hasSpokenRef /\ S1.sinceSpeech > SILENCE_MS
                THEN [stopInteraction(S1) EXCEPT !.vad = TRUE]
              ELSE S1
    IN [S2 EXCEPT !.frames = @ \cup {loop}, !.requestAnimFrameRef = loop]

\* startInteraction up to the await of getUserMedia; capturedIsPlaying is
\* the isPlaying of the render that created the callback
startInteractionBegin(S, capturedIsPlaying) ==
  LET S1 == IF capturedIsPlaying
            THEN [S EXCEPT !.audio = [c \in CallIds |->
                                 IF c = S.audioPlayerRef /\ @[c] \in {"loading", "playing"}
                                 THEN "paused" ELSE @[c]],
                           !.isPlaying = FALSE]
            ELSE S
  IN [S1 EXCEPT !.sinceSpeech = 0, !.hasSpokenRef = FALSE, !.error = "null",
                !.cancelledCalls = @ \cup PendingCalls(S)]

\* the desktop branch after getUserMedia resolved: stream, analyser, sampler
startInteractionMic(S, id, rms) ==
  LET S1 == [S EXCEPT !.stream[id] = "live", !.streamRef = id, !.analyserRef = TRUE]
  IN analyzeAudioLevel(S1, id, rms)

\* startInteraction whose recognizer start() is not wrapped in try/catch: the
\* exception of a start while started reaches the outer catch
startInteractionListen_ThrowEscapes(S, id) ==
  IF supported /\ S.recognition # "idle"
  THEN [S EXCEPT !.error = "mic_denied", !.isListening = FALSE, !.starts[id] = "failed"]
  ELSE LET S2 == clearTimeout(IF supported
                              THEN [S EXCEPT !.recognition = "running", !.recFinals = 0,
                                             !.recCalls = 0, !.isListening = TRUE,
                                             !.quiet = TRUE, !.listenElapsed = 0]
                              ELSE S)
       IN [S2 EXCEPT !.timers = @ \cup {id}, !.timerLeft[id] = WATCHDOG_MS,
                     !.timerRef = id, !.starts[id] = "done"]

\* steps 2 and 3 of startInteraction: recognizer start and watchdog
startInteractionListen(S, id) ==
  LET fresh == S.recognition = "idle"
      S1 == IF supported
            THEN [S EXCEPT !.recognition = IF fresh THEN "running" ELSE @,
                           !.recFinals = IF fresh THEN 0 ELSE @,
                           !.recCalls = IF fresh THEN 0 ELSE @,
                           !.isListening = TRUE,
                           !.quiet = TRUE,
                           !.listenElapsed = 0]
            ELSE S
      S2 == clearTimeout(S1)
  IN [S2 EXCEPT !.timers = @ \cup {id},
                !.timerLeft[id] = WATCHDOG_MS,
                !.timerRef = id,
                !.starts[id] = "done"]

\* the catch of startInteraction
startInteractionCatch(S, id) ==
  [S EXCEPT !.error = "mic_denied", !.isListening = FALSE, !.starts[id] = "failed"]

\* playResponseAudio without its setIsProcessing(false)
playResponseAudio_KeepsProcessing(S, c) ==
  [S EXCEPT !.audio[c] = "loading",
            !.audioPlayerRef = c,
            !.isPlaying = TRUE,
            !.spoke = @ \cup {c}]

playResponseAudio(S, c) ==
  [S EXCEPT !.audio[c] = "loading",
            !.audioPlayerRef = c,
            !.isProcessing = FALSE,
            !.isPlaying = TRUE,
            !.spoke = @ \cup {c}]

\* the catch of sendTextToWebhook
sendTextToWebhookCatch(S) ==
  [S EXCEPT !.error = "connection_failed", !.isProcessing = FALSE]

\* sendTextToWebhook without the check of webhookUrl: fetch is always called
sendTextToWebhook_NoUrlCheck(S, c) ==
  [S EXCEPT !.isProcessing = TRUE, !.calls[c] = "inflight", !.recCalls = @ + 1]

\* sendTextToWebhook up to the await of fetch
sendTextToWebhook(S, c) ==
  LET S1 == [S EXCEPT !.isProcessing = TRUE]
  IN IF webhookUrl = ""
     THEN sendTextToWebhookCatch(S1)
     ELSE [S1 EXCEPT !.calls[c] = "inflight", !.recCalls = @ + 1]

\* The JSON branch testing message / error before audio
classifyResponse_MessageFirst(r) ==
  IF ~r.fetch THEN "NetworkError"
  ELSE IF ~r.ok THEN "HttpError"
  ELSE IF r.json
    THEN IF r.text = "empty" THEN "EmptyServerResponse"
         ELSE IF r.text = "invalid" THEN "SyntaxError"
         ELSE IF r.message THEN "ServerReportedError"
         ELSE IF r.audio = "base64" THEN "audio"
         ELSE IF r.audio = "malformed" THEN "InvalidCharacterError"
         ELSE "MissingAudioField"
  ELSE IF r.bytes = 0 THEN "EmptyServerResponse"
  ELSE "audio"

\* The classification of the earlier revisions of the hook, which hand any
\* binary body to playback without looking at its length.
classifyResponse_NoLengthCheck(r) ==
  IF ~r.fetch THEN "NetworkError"
  ELSE IF ~r.ok THEN "HttpError"
  ELSE IF r.json
    THEN IF r.text = "empty" THEN "EmptyServerResponse"
         ELSE IF r.text = "invalid" THEN "SyntaxError"
         ELSE IF r.audio = "base64" THEN "audio"
         ELSE IF r.audio = "malformed" THEN "InvalidCharacterError"
         ELSE IF r.message THEN "ServerReportedError"
         ELSE "MissingAudioField"
  ELSE "audio"

\* How sendTextToWebhook classifies a response: "audio" when it reaches
\* playResponseAudio, otherwise the error it throws.
classifyResponse(r) ==
  IF ~r.fetch THEN "NetworkError"
  ELSE IF ~r.ok THEN "HttpError"
  ELSE IF r.json
    THEN IF r.text = "empty" THEN "EmptyServerResponse"
         ELSE IF r.text = "invalid" THEN "SyntaxError"
         ELSE IF r.audio = "base64" THEN "audio"
         ELSE IF r.audio = "malformed" THEN "InvalidCharacterError"
         ELSE IF r.message THEN "ServerReportedError"
         ELSE "MissingAudioField"
  ELSE IF r.bytes = 0 THEN "EmptyServerResponse"
  ELSE "audio"

\* sendTextToWebhook after the response arrived
sendTextToWebhookResume(S, c, r) ==
  IF classifyResponse(r) = "audio"
  THEN playResponseAudio([S EXCEPT !.calls[c] = "played"], c)
  ELSE sendTextToWebhookCatch([S EXCEPT !.calls[c] = "failed"])

\* recognition.onresult that drops results once Listening has ended
onresult_OnlyWhileListening(S, text, final, c) ==
  IF ~S.isListening THEN S
  ELSE LET S2 == [clearTimeout(S) EXCEPT !.transcript = text]
       IN IF final
          THEN sendTextToWebhook([stopInteraction(S2) EXCEPT !.quiet = FALSE], c)
          ELSE S2

\* recognition.onresult
onresult(S, text, final, c) ==
  LET S1 == clearTimeout(S)
      S2 == [S1 EXCEPT !.transcript = text]
  IN IF final
     THEN sendTextToWebhook([stopInteraction(S2) EXCEPT !.quiet = FALSE], c)
     ELSE S2

\* onerror without the 'aborted' case: the code falls to the final else
errorMessage_AbortedReported(code, old) ==
  IF code = "not-allowed" THEN "mic_blocked"
  ELSE IF code = "no-speech" THEN "no_speech"
  ELSE IF code = "network" THEN "network"
  ELSE "voice_error"

\* the ErrorState recognition.onerror stores for an error code
errorMessage(code, old) ==
  IF code = "not-allowed" THEN "mic_blocked"
  ELSE IF code = "no-speech" THEN "no_speech"
  ELSE IF code = "network" THEN "network"
  ELSE IF code = "aborted" THEN old
  ELSE "voice_error"

\* recognition.onerror
onerror(S, code) ==
  LET S1 == clearTimeout(S)
      S2 == [S1 EXCEPT !.error = errorMessage(code, @)]
  IN stopInteraction(S2)

\* the watchdog's callback
watchdogExpired(S) ==
  LET active == supported /\ S.recognition \in {"running", "stopping"}
      S1 == [S EXCEPT !.recognition = IF active THEN "idle" ELSE @,
                      !.abortPending = @ \/ active]
  IN [stopInteraction(S1) EXCEPT !.error = "time_limit"]

\* audio.onended
onended(S, c) ==
  [S EXCEPT !.isPlaying = FALSE, !.isProcessing = FALSE, !.audio[c] = "ended"]

\* audio.onerror
onAudioError(S, c) ==
  [S EXCEPT !.error = "playback_error", !.isPlaying = FALSE,
            !.isProcessing = FALSE, !.audio[c] = "error"]

\* ---- actions ------------------------------------------------------------

FreeStarts == {i \in StartIds : starts[i] = "none"}
FreeCalls == {c \in CallIds : calls[c] = "none"}
Lowest(ids) == IF ids = {} THEN 0 ELSE CHOOSE i \in ids : \A j \in ids : i <= j

InterimText == "turn on"
FinalText == "turn on the lights"

\* The state after the hook mounted, in each environment the page may run in.
Mounted ==
  /\ isMobile \in BOOLEAN
  /\ supported \in BOOLEAN
  /\ webhookUrl \in {"", "https://n8n.example/webhook"}
  /\ isListening = FALSE /\ isProcessing = FALSE /\ isPlaying = FALSE
  /\ audioLevel = 0 /\ transcript = ""
  /\ error = IF supported THEN "null" ELSE "unsupported"
  /\ rendered = [isListening |-> FALSE, isProcessing |-> FALSE, isPlaying |-> FALSE]
  /\ isListeningRef = FALSE /\ hasSpokenRef = FALSE
  /\ sinceSpeech = 0
  /\ analyserRef = FALSE /\ streamRef = 0 /\ requestAnimFrameRef = 0
  /\ timerRef = 0 /\ audioPlayerRef = 0
  /\ stream = [i \in StartIds |-> "none"]
  /\ frames = {} /\ timers = {}
  /\ timerLeft = [i \in StartIds |-> 0]
  /\ audio = [c \in CallIds |-> "none"]
  /\ recognition = "idle" /\ recFinals = 0 /\ abortPending = FALSE
  /\ starts = [i \in StartIds |-> "none"]
  /\ calls = [c \in CallIds |-> "none"]
  /\ ev = Event("none", 0, "")
  /\ recCalls = 0 /\ quiet = FALSE /\ listenElapsed = 0 /\ spoke = {}
  /\ cancelledCalls = {} /\ cancelledStarts = {}

\* no payload is being decoded
NoPayload == bytes = << >> /\ base64 = << >> /\ blob = << >> /\ b64pc = "idle"

\* the gateway after a client connected and the AI session opened
GatewayConnected ==
  /\ gwMessages = << >> /\ gwPc = << >>
  /\ posts = << >> /\ toolResponses = << >> /\ wsSent = << >>
  /\ webhookReplies = [c \in 1..(MaxMessages * MaxToolCalls) |-> "none"]
  /\ clientOpen = TRUE

\* setAudioLevel's initial state
LevelZero == level = 0

\* continuous = false: a recognizer run ends with its final result
Init == Mounted /\ finalsPerRun = 1 /\ NoPayload /\ GatewayConnected /\ LevelZero

\* a recognizer that delivers final results in rapid succession
InitRapid == Mounted /\ finalsPerRun = MaxFinals /\ NoPayload /\ GatewayConnected /\ LevelZero

\* The flags of the state not yet rendered differ from the last render's.
Dirty ==
  rendered # [isListening |-> isListening, isProcessing |-> isProcessing, isPlaying |-> isPlaying]

\* A re-render commits the state; the effect on [isListening] syncs the ref.
\* React schedules it as the next task after the handler that set state:
\* only a user click or an animation frame, the two callbacks that read
\* what was rendered, are explored in between.
Render ==
  /\ Dirty
  /\ rendered' = [isListening |-> isListening, isProcessing |-> isProcessing, isPlaying |-> isPlaying]
  /\ isListeningRef' = isListening
  /\ UNCHANGED << isListening, isProcessing, isPlaying, audioLevel, transcript, error,
                  hasSpokenRef, sinceSpeech, analyserRef, streamRef, requestAnimFrameRef,
                  timerRef, audioPlayerRef, stream, frames, timers, timerLeft, audio,
                  recognition, recFinals, abortPending, starts, calls, isMobile,
                  supported, webhookUrl, finalsPerRun, recCalls, quiet, listenElapsed, spoke,
                  cancelledCalls, cancelledStarts, bytes, base64, blob, b64pc,
                  gatewayVars, level >>
  /\ ev' = Event("none", 0, "")

\* A handler ran: its writes, with the rendered snapshot left to Render.
Handler(S, e) ==
  /\ Commit(S)
  /\ ev' = e
  /\ UNCHANGED << rendered, isListeningRef >>

\* App.handleOrbClick, with the flags of the last render
handleOrbClick ==
  \/ /\ rendered.isListening
     /\ Handler(stopInteraction(Cur), Event("stop", 0, ""))
  \/ /\ ~rendered.isListening /\ ~rendered.isProcessing /\ ~rendered.isPlaying
     /\ FreeStarts # {}
     /\ LET id == Lowest(FreeStarts)
            S1 == startInteractionBegin(Cur, rendered.isPlaying)
        IN IF isMobile
           THEN Handler(startInteractionListen(S1, id), Event("start", id, ""))
           ELSE Handler([S1 EXCEPT !.starts[id] = "awaitMic"], Event("startBegin", id, ""))
  \/ /\ ~rendered.isListening /\ (rendered.isProcessing \/ rendered.isPlaying)
     /\ Handler(Cur, Event("none", 0, ""))

\* getUserMedia resolved: startInteraction continues
MicGranted(id) ==
  /\ ~Dirty
  /\ starts[id] = "awaitMic"
  /\ Handler(startInteractionListen(startInteractionMic(Cur, id, 0), id), Event("start", id, ""))

\* getUserMedia rejected
MicDenied(id) ==
  /\ ~Dirty
  /\ starts[id] = "awaitMic"
  /\ Handler(startInteractionCatch(Cur, id), Event("micDenied", id, ""))

\* an animation frame of sampler loop `loop` fires
Frame(loop, rms) ==
  /\ loop \in frames
  /\ rms \in (IF streamRef # 0 /\ stream[streamRef] = "live" THEN RmsSamples ELSE {0})
  /\ LET S == analyzeAudioLevel([Cur EXCEPT !.frames = @ \ {loop}], loop, rms)
     IN Handler([S EXCEPT !.vad = FALSE], Event(IF S.vad THEN "vad" ELSE "frame", 0, ""))

\* the watchdog timer of start `id` is due
WatchdogFires(id) ==
  /\ ~Dirty
  /\ id \in timers /\ timerLeft[id] = 0
  /\ Handler(watchdogExpired([Cur EXCEPT !.timers = @ \ {id}]), Event("watchdog", id, ""))

\* the recognizer delivers an interim result
RecInterim ==
  /\ ~Dirty
  /\ supported /\ recognition = "running"
  /\ Handler(onresult(Cur, InterimText, FALSE, 0), Event("interim", 0, ""))

\* the recognizer delivers a final result; `more` when the run goes on after it
RecFinal(more) ==
  /\ ~Dirty
  /\ supported /\ recognition \in {"running", "stopping"}
  /\ recFinals < finalsPerRun
  /\ more => recFinals + 1 < finalsPerRun
  /\ webhookUrl = "" \/ FreeCalls # {}
  /\ LET c == Lowest(FreeCalls)
         S0 == [Cur EXCEPT !.recFinals = @ + 1,
                           !.recognition = IF more THEN @ ELSE "idle"]
     IN Handler(onresult(S0, FinalText, TRUE, c),
                Event("final", c, IF recognition = "stopping" /\ ~isListening /\ ~isProcessing
                                     /\ ~isPlaying
                                  THEN "afterStop" ELSE ""))

\* a final result the recognizer had queued when abort() was called is
\* dispatched after it, before the 'aborted' error
RecLateFinal ==
  /\ ~Dirty
  /\ supported /\ abortPending /\ recognition = "idle"
  /\ recFinals = 0
  /\ webhookUrl = "" \/ FreeCalls # {}
  /\ LET c == Lowest(FreeCalls)
         S0 == [Cur EXCEPT !.recFinals = @ + 1]
     IN Handler(onresult(S0, FinalText, TRUE, c), Event("final", c, "late"))

\* the recognizer fails with an error code and ends
RecError(code) ==
  /\ ~Dirty
  /\ supported /\ recognition \in {"running", "stopping"}
  /\ Handler(onerror([Cur EXCEPT !.recognition = "idle", !.quiet = FALSE], code),
             Event("recError", 0, code))

\* the 'aborted' error the recognizer reports after abort()
RecAborted ==
  /\ ~Dirty
  /\ abortPending
  /\ Handler(onerror([Cur EXCEPT !.abortPending = FALSE], "aborted"),
             Event("recError", 0, "aborted"))

\* the recognizer ends without a result (onend does nothing)
RecEnd ==
  /\ ~Dirty
  /\ supported /\ recognition \in {"running", "stopping"}
  /\ Handler([Cur EXCEPT !.recognition = "idle"], Event("none", 0, ""))

\* the webhook call settles with response r
WebhookResponse(c, r) ==
  /\ ~Dirty
  /\ calls[c] = "inflight"
  /\ Handler(sendTextToWebhookResume(Cur, c, r), Event("webhook", c, r))

\* audio.play() resolved: the element plays
AudioPlaying(c) ==
  /\ ~Dirty
  /\ audio[c] = "loading"
  /\ Handler([Cur EXCEPT !.audio[c] = "playing"], Event("none", 0, ""))

\* audio.play() rejected by the autoplay policy: no event, no handler
AudioBlocked(c) ==
  /\ ~Dirty
  /\ audio[c] = "loading"
  /\ Handler([Cur EXCEPT !.audio[c] = "blocked"], Event("none", 0, ""))

AudioEnded(c) ==
  /\ ~Dirty
  /\ audio[c] = "playing"
  /\ Handler(onended(Cur, c), Event("ended", c, ""))

AudioError(c) ==
  /\ ~Dirty
  /\ audio[c] \in {"loading", "playing"}
  /\ Handler(onAudioError(Cur, c), Event("audioError", c, ""))

\* the time that passes in one step: a silence window, or less when a
\* watchdog is due sooner
Step ==
  LET due == {timerLeft[i] : i \in timers}
  IN IF \E d \in due : d < SILENCE_MS THEN CHOOSE d \in due : \A e \in due : d <= e
     ELSE SILENCE_MS

\* Time passes; a due timer fires before time moves on.
Tick ==
  /\ ~Dirty
  /\ \A i \in timers : timerLeft[i] > 0
  /\ \/ timers # {}
     \/ hasSpokenRef /\ sinceSpeech <= SILENCE_MS
     \/ isListening /\ listenElapsed <= WATCHDOG_MS
  /\ timerLeft' = [i \in StartIds |-> IF i \in timers THEN timerLeft[i] - Step ELSE timerLeft[i]]
  /\ sinceSpeech' = IF hasSpokenRef THEN Min(sinceSpeech + Step, 2 * SILENCE_MS)
                                   ELSE sinceSpeech
  /\ listenElapsed' = IF isListening THEN Min(listenElapsed + Step, WATCHDOG_MS + SILENCE_MS)
                                     ELSE listenElapsed
  /\ ev' = Event("none", 0, "")
  /\ UNCHANGED << isListening, isProcessing, isPlaying, audioLevel, transcript, error,
                  rendered, isListeningRef, hasSpokenRef, analyserRef, streamRef,
                  requestAnimFrameRef, timerRef, audioPlayerRef, stream, frames, timers,
                  audio, recognition, recFinals, abortPending, starts, calls, isMobile,
                  supported, webhookUrl, finalsPerRun, recCalls, quiet, spoke,
                  cancelledCalls, cancelledStarts, bytes, base64, blob, b64pc,
                  gatewayVars, level >>

Next ==
  \/ Render
  \/ handleOrbClick
  \/ \E id \in StartIds : MicGranted(id)
  \/ \E id \in StartIds : MicDenied(id)
  \/ \E loop \in StartIds, rms \in RmsSamples : Frame(loop, rms)
  \/ \E id \in StartIds : WatchdogFires(id)
  \/ RecInterim
  \/ \E more \in BOOLEAN : RecFinal(more)
  \/ RecLateFinal
  \/ \E code \in ErrorCodes : RecError(code)
  \/ RecAborted
  \/ RecEnd
  \/ \E c \in CallIds, r \in Responses : WebhookResponse(c, r)
  \/ \E c \in CallIds : AudioPlaying(c)
  \/ \E c \in CallIds : AudioBlocked(c)
  \/ \E c \in CallIds : AudioEnded(c)
  \/ \E c \in CallIds : AudioError(c)
  \/ Tick

Spec == Init /\ [][Next]_vars

\* The schedules in which every re-render runs before the next callback, so
\* that no tap and no animation frame ever sees flags older than the state.
NextPrompt ==
  \/ ~Dirty /\ Next
  \/ Render

SpecPrompt == Init /\ [][NextPrompt]_vars

SpecRapid == InitRapid /\ [][NextPrompt]_vars

\* ---- audioUtils: base64ToBlob -------------------------------------------

\* the base64 alphabet; "=" pads
Alphabet ==
  << "A", "B", "C", "D", "E", "F", "G", "H", "I", "J", "K", "L", "M",
     "N", "O", "P", "Q", "R", "S", "T", "U", "V", "W", "X", "Y", "Z",
     "a", "b", "c", "d", "e", "f", "g", "h", "i", "j", "k", "l", "m",
     "n", "o", "p", "q", "r", "s", "t", "u", "v", "w", "x", "y", "z",
     "0", "1", "2", "3", "4", "5", "6", "7", "8", "9", "+", "/" >>

Char(v) == Alphabet[v + 1]
Sextet(ch) == (CHOOSE i \in DOMAIN Alphabet : Alphabet[i] = ch) - 1

\* byte values explored: every bit of a byte is set in one and clear in another
ByteValues == {0, 1, 15, 85, 127, 128, 170, 240, 255}

\* What the server does to produce json.audio: standard base64 encoding,
\* three bytes to four characters, the tail padded with "=".
RECURSIVE base64encode(_)
base64encode(b) ==
  IF Len(b) = 0 THEN << >>
  ELSE IF Len(b) = 1
    THEN << Char(b[1] \div 4), Char((b[1] % 4) * 16), "=", "=" >>
  ELSE IF Len(b) = 2
    THEN << Char(b[1] \div 4), Char((b[1] % 4) * 16 + b[2] \div 16),
            Char((b[2] % 16) * 4), "=" >>
  ELSE << Char(b[1] \div 4), Char((b[1] % 4) * 16 + b[2] \div 16),
          Char((b[2] % 16) * 4 + b[3] \div 64), Char(b[3] % 64) >>
       \o base64encode(SubSeq(b, 4, Len(b)))

\* atob: the input without its padding (one or two "=" ending a string whose
\* length is a multiple of 4)
Unpadded(s) ==
  IF Len(s) = 0 \/ Len(s) % 4 # 0 THEN s
  ELSE IF s[Len(s)] = "=" /\ s[Len(s) - 1] = "=" THEN SubSeq(s, 1, Len(s) - 2)
  ELSE IF s[Len(s)] = "=" THEN SubSeq(s, 1, Len(s) - 1)
  ELSE s

\* atob throws InvalidCharacterError unless this holds
Decodable(s) ==
  LET u == Unpadded(s)
  IN /\ Len(u) % 4 # 1
     /\ \A i \in DOMAIN u : \E j \in DOMAIN Alphabet : Alphabet[j] = u[i]

\* the char codes of the binary string atob builds from sextets: four
\* characters give three codes, a tail of two or three gives one or two
RECURSIVE DecodeSextets(_)
DecodeSextets(q) ==
  IF Len(q) < 2 THEN << >>
  ELSE IF Len(q) = 2 THEN << q[1] * 4 + q[2] \div 16 >>
  ELSE IF Len(q) = 3
    THEN << q[1] * 4 + q[2] \div 16, (q[2] % 16) * 16 + q[3] \div 4 >>
  ELSE << q[1] * 4 + q[2] \div 16, (q[2] % 16) * 16 + q[3] \div 4, (q[3] % 4) * 64 + q[4] >>
       \o DecodeSextets(SubSeq(q, 5, Len(q)))

atob(s) ==
  LET u == Unpadded(s)
  IN DecodeSextets([i \in DOMAIN u |-> Sextet(u[i])])

\* base64ToBlob whose loop stops one character early: the last slot of
\* byteNumbers stays empty and becomes 0 in the Uint8Array
base64ToBlob_OffByOne(s) ==
  LET byteCharacters == atob(s)
      n == Len(byteCharacters)
  IN [i \in 1..n |-> IF i < n THEN byteCharacters[i] % 256 ELSE 0]

\* base64ToBlob: atob, charCodeAt of every character, Uint8Array, Blob
base64ToBlob(s) ==
  LET byteCharacters == atob(s)
      byteNumbers == [i \in 1..Len(byteCharacters) |-> byteCharacters[i]]
  IN [i \in 1..Len(byteNumbers) |-> byteNumbers[i] % 256]

\* byte sequences of length 0..n over ByteValues
RECURSIVE ByteSeqs(_)
ByteSeqs(n) ==
  IF n = 0 THEN {<< >>}
  ELSE LET shorter == ByteSeqs(n - 1)
       IN shorter \cup {Append(b, v) : b \in {x \in shorter : Len(x) = n - 1}, v \in ByteValues}

\* the server encodes a payload
EncodePayload ==
  /\ b64pc = "input"
  /\ base64' = base64encode(bytes)
  /\ b64pc' = "encoded"
  /\ UNCHANGED << hookVars, bytes, blob, gatewayVars, level >>

\* sendTextToWebhook decodes json.audio
DecodePayload ==
  /\ b64pc = "encoded"
  /\ Decodable(base64)
  /\ blob' = base64ToBlob(base64)
  /\ b64pc' = "decoded"
  /\ UNCHANGED << hookVars, bytes, base64, gatewayVars, level >>

InitBase64 ==
  /\ Mounted /\ finalsPerRun = 1
  /\ isMobile /\ supported /\ webhookUrl # ""
  /\ bytes \in ByteSeqs(MaxBytes)
  /\ base64 = << >> /\ blob = << >> /\ b64pc = "input"
  /\ GatewayConnected /\ LevelZero

NextBase64 ==
  \/ EncodePayload
  \/ DecodePayload

SpecBase64 == InitBase64 /\ [][NextBase64]_vars

\* ---- the gateway: tool calls of the AI service -----------------------------

\* function calls the AI service may put in a message (name and args)
ToolCalls ==
  { [name |-> "trigger_automation", args |-> [action |-> "turn_lights_on"]],
    [name |-> "trigger_automation", args |-> [action |-> "check_calendar"]],
    [name |-> "other_tool", args |-> [action |-> "turn_lights_on"]] }

\* JSON bodies the webhook may answer with
WebhookResults == {"done", "queued"}

\* the toolCall.functionCalls of message number m: up to MaxToolCalls calls,
\* each with an id of its own
FunctionCalls(m) ==
  UNION { { [k \in 1..n |-> [name |-> f[k].name, args |-> f[k].args,
                             id |-> MaxToolCalls * (m - 1) + k]] : f \in [1..n -> ToolCalls] }
          : n \in 0..MaxToolCalls }

\* LiveServerMessage, as far as onmessage reads it.  A message of the AI service
\* carries either server content (whose first part is audio or text, not both)
\* or a tool call, so the fields of the other kind are absent.
ServerMessages(m) ==
  { msg \in { [toolCall |-> FALSE, audioData |-> a, transcript |-> t, functionCalls |-> << >>,
               interrupted |-> i] : a \in BOOLEAN, t \in BOOLEAN, i \in BOOLEAN } :
      ~(msg.audioData /\ msg.transcript) }
  \cup
  { [toolCall |-> TRUE, audioData |-> FALSE, transcript |-> FALSE, functionCalls |-> fc,
     interrupted |-> FALSE] : fc \in FunctionCalls(m) }

GCur ==
  [ gwMessages |-> gwMessages, gwPc |-> gwPc, posts |-> posts,
    toolResponses |-> toolResponses, webhookReplies |-> webhookReplies, wsSent |-> wsSent ]

GCommit(G) ==
  /\ gwMessages' = G.gwMessages /\ gwPc' = G.gwPc /\ posts' = G.posts
  /\ toolResponses' = G.toolResponses /\ webhookReplies' = G.webhookReplies
  /\ wsSent' = G.wsSent
  /\ UNCHANGED << hookVars, bytes, base64, blob, b64pc, clientOpen, level >>

\* ws.send: nothing is sent on a closed connection, and nothing is thrown
wsSend(G, type, text) ==
  IF clientOpen THEN [G EXCEPT !.wsSent = Append(@, [type |-> type, text |-> text])] ELSE G

\* session.sendToolResponse
sendToolResponse(G, call, response) ==
  [G EXCEPT !.toolResponses = Append(@, [name |-> call.name, id |-> call.id, response |-> response])]

\* The loop over msg.toolCall.functionCalls of handler h, from call number k
\* up to its next await (the fetch of a trigger_automation call) or, past the
\* last call, to the end of onmessage.  `for` of a POST names the call whose
\* iteration sent it.
RECURSIVE toolCallLoop(_, _, _)
toolCallLoop(G, h, k) ==
  LET msg == G.gwMessages[h] IN
  IF k > Len(msg.functionCalls)
  THEN LET G1 == IF msg.interrupted THEN wsSend(G, "interrupt", "") ELSE G
       IN [G1 EXCEPT !.gwPc[h] = [i |-> 0, at |-> "done"]]
  ELSE LET call == msg.functionCalls[k] IN
       IF call.name = "trigger_automation"
       THEN LET G1 == wsSend(G, "text", call.args.action)
            IN [G1 EXCEPT !.posts = Append(@, [body |-> call.args, for |-> call.id]),
                          !.gwPc[h] = [i |-> k, at |-> "fetch"]]
       ELSE toolCallLoop(G, h, k + 1)

\* the catch of a tool call without its sendToolResponse
toolCallCatch_Silent(G, h) ==
  toolCallLoop(G, h, G.gwPc[h].i + 1)

\* the catch of a tool call: the error is sent to the AI service and the loop goes on
toolCallCatch(G, h) ==
  LET call == G.gwMessages[h].functionCalls[G.gwPc[h].i]
      G1 == sendToolResponse(G, call, [error |-> "Failed to execute automation"])
  IN toolCallLoop(G1, h, G.gwPc[h].i + 1)

\* the try of a tool call that answers every call with the same result
toolCallResult_Fixed(G, h, result) ==
  LET call == G.gwMessages[h].functionCalls[G.gwPc[h].i]
      G1 == sendToolResponse(G, call, [result |-> "done"])
  IN toolCallLoop(G1, h, G.gwPc[h].i + 1)

\* the try of a tool call after n8nResponse.json(): the result is sent to the AI
\* service and the loop goes on
toolCallResult(G, h, result) ==
  LET call == G.gwMessages[h].functionCalls[G.gwPc[h].i]
      G1 == sendToolResponse(G, call, [result |-> result])
  IN toolCallLoop(G1, h, G.gwPc[h].i + 1)

\* the AI service delivers a message: onmessage runs up to its first await
onmessage ==
  /\ Len(gwMessages) < MaxMessages
  /\ \E msg \in ServerMessages(Len(gwMessages) + 1) :
       LET h == Len(gwMessages) + 1
           G0 == [GCur EXCEPT !.gwMessages = Append(@, msg),
                              !.gwPc = Append(@, [i |-> 0, at |-> "start"])]
           G1 == IF msg.audioData THEN wsSend(G0, "audio", "") ELSE G0
           G2 == IF msg.transcript THEN wsSend(G1, "text", "assistant") ELSE G1
       IN GCommit(toolCallLoop(G2, h, 1))

\* the fetch of handler h settles: a response arrived, or the request failed
FetchSettled(h, ok) ==
  /\ h \in 1..Len(gwPc) /\ gwPc[h].at = "fetch"
  /\ LET id == gwMessages[h].functionCalls[gwPc[h].i].id IN
     IF ok
     THEN GCommit([GCur EXCEPT !.gwPc[h].at = "json"])
     ELSE GCommit(toolCallCatch([GCur EXCEPT !.webhookReplies[id] = "rejected"], h))

\* n8nResponse.json() of handler h settles: a JSON value, or a parse failure
JsonSettled(h, result) ==
  /\ h \in 1..Len(gwPc) /\ gwPc[h].at = "json"
  /\ LET id == gwMessages[h].functionCalls[gwPc[h].i].id
         G == [GCur EXCEPT !.webhookReplies[id] = result]
     IN IF result \in WebhookResults
        THEN GCommit(toolCallResult(G, h, result))
        ELSE GCommit(toolCallCatch(G, h))

\* the browser closes its connection: the gateway only logs it
ClientCloses ==
  /\ clientOpen
  /\ clientOpen' = FALSE
  /\ UNCHANGED << hookVars, bytes, base64, blob, b64pc, level,
                  gwMessages, gwPc, posts, toolResponses, webhookReplies, wsSent >>

Settle(h) ==
  \/ \E ok \in BOOLEAN : FetchSettled(h, ok)
  \/ \E result \in WebhookResults \cup {"unparsable"} : JsonSettled(h, result)

InitGateway ==
  /\ Mounted /\ finalsPerRun = 1
  /\ isMobile /\ supported /\ webhookUrl # ""
  /\ NoPayload /\ LevelZero
  /\ GatewayConnected

NextGateway ==
  \/ onmessage
  \/ \E h \in 1..MaxMessages : Settle(h)
  \/ ClientCloses

\* every pending request to the webhook settles: fetch resolves or rejects
SpecGateway ==
  InitGateway /\ [][NextGateway]_vars /\ \A h \in 1..MaxMessages : WF_vars(Settle(h))

\* ---- the smoothed amplitude, as a number -------------------------------------

\* sample values of the analyser's time-domain buffer, in units of 1/SCALE
SampleValues == {0 - SCALE, 0 - 50, 0, 2, 13, SCALE}

\* the buffers read by getFloatTimeDomainData
SampleBuffers == [1..BufLen -> SampleValues]

\* Math.sqrt, rounded down
Sqrt(n) == CHOOSE r \in 0..(SCALE * SCALE) : r * r <= n /\ n < (r + 1) * (r + 1)

RECURSIVE SumSquares(_, _)
SumSquares(data, i) ==
  IF i = 0 THEN 0 ELSE SumSquares(data, i - 1) + data[i] * data[i]

\* calculateRMS: data in units of 1/SCALE, and so is the result
calculateRMS(data) == Sqrt(SumSquares(data, Len(data)) \div Len(data))

\* the updater of setAudioLevel: prev * 0.8 + (rms * 8) * 0.2
setAudioLevel(prev, rms) == (prev * 8 + (rms * GAIN) * 2) \div 10

\* an animation frame: analyzeAudioLevel reads a buffer and updates the level
SampleFrame ==
  /\ \E data \in SampleBuffers : level' = setAudioLevel(level, calculateRMS(data))
  /\ UNCHANGED << hookVars, bytes, base64, blob, b64pc, gatewayVars >>

\* stopInteraction: setAudioLevel(0)
ResetLevel ==
  /\ level' = 0
  /\ UNCHANGED << hookVars, bytes, base64, blob, b64pc, gatewayVars >>

InitLevel ==
  /\ Mounted /\ finalsPerRun = 1
  /\ ~isMobile /\ supported /\ webhookUrl # ""
  /\ NoPayload /\ GatewayConnected
  /\ LevelZero

NextLevel ==
  \/ SampleFrame
  \/ ResetLevel

SpecLevel == InitLevel /\ [][NextLevel]_vars

\* ---- claims -------------------------------------------------------------

Idle == ~isListening /\ ~isProcessing /\ ~isPlaying

\* C1: at most one of Listening, Processing, Speaking is true at any instant.
C1_AtMostOneActive ==
  /\ ~(isListening /\ isProcessing)
  /\ ~(isListening /\ isPlaying)
  /\ ~(isProcessing /\ isPlaying)

\* C2: of the final transcripts one recognizer session delivers, only the
\* first initiates a webhook call.
C2_OnlyFirstFinalCalls == recCalls <= 1

\* C3: while Listening without a final transcript or a recognition error,
\* the watchdog ends the phase when 10 s have passed since Listening was
\* entered: Listening never lasts longer.
C3_WatchdogEndsListening ==
  (isListening /\ quiet) => listenElapsed <= WATCHDOG_MS

\* C4: a handler that sets ErrorState to a message leaves the controller Idle.
C4_ErrorForcesIdle ==
  [][(error' # error /\ error' # "null") => Idle']_vars

\* C5: at most one microphone stream, one sampler loop and one playing audio
\* element exist at any time.
C5_SingleSessions ==
  /\ Cardinality({i \in StartIds : stream[i] = "live"}) <= 1
  /\ Cardinality(frames) <= 1
  /\ Cardinality({c \in CallIds : audio[c] = "playing"}) <= 1

\* C6: a payload whose load or play failed (an error event, or play()
\* rejected by the autoplay policy) never made the controller enter Speaking,
\* and the failure leaves the controller Idle with ErrorState set.
C6_FailedPlaybackNeverSpeaks ==
  \A c \in CallIds :
    audio[c] \in {"error", "blocked"} =>
      /\ c \notin spoke
      /\ audioPlayerRef = c => (~isPlaying /\ error # "null")

\* The controller shows Speaking or Processing and nothing that could end
\* the phase is pending: handleOrbClick ignores every tap from here on.
Stuck ==
  /\ ~Dirty
  /\ isPlaying \/ isProcessing
  /\ ~isListening
  /\ \A c \in CallIds : audio[c] \notin {"loading", "playing"} /\ calls[c] # "inflight"
  /\ recognition = "idle" /\ ~abortPending
  /\ \A i \in StartIds : starts[i] # "awaitMic"

\* C7: no failure leaves the controller stuck: a tap can always lead to a
\* new interaction, now or once the pending events have been handled.
C7_NeverStuck == ~Stuck

\* Once stuck, stuck for good: no event and no tap changes it.
StuckIsPermanent == [][Stuck => Stuck']_vars

\* C8: while Listening with voiced input registered, a sample at or below
\* the threshold taken more than 1.5 s after the last voiced one runs the
\* stop path (recognizer stopped, watchdog cancelled, level reset, Listening
\* left) and leaves ErrorState as it was.
C8_VadStopsWithoutError ==
  [][\A loop \in StartIds, rms \in RmsSamples :
       ( /\ Frame(loop, rms)
         /\ isListeningRef /\ hasSpokenRef
         /\ rms <= THRESHOLD /\ sinceSpeech > SILENCE_MS )
       => ( /\ ~isListening'
            /\ audioLevel' = 0
            /\ timerRef \notin timers'
            /\ recognition' # "running"
            /\ (streamRef # 0 => stream'[streamRef] # "live")
            /\ error' = error )]_vars

\* a VAD stop happened while Listening, and no error is shown
C8_Witness ==
  /\ ev.op = "vad"
  /\ ~isListening /\ error = "null" /\ audioLevel = 0

\* C9: after a non-success HTTP status ErrorState is the connection-failure
\* message, the state is Idle and no playback exists for that request.
C9_HttpErrorIdle ==
  (ev.op = "webhook" /\ ev.arg.fetch /\ ~ev.arg.ok) =>
    /\ error = "connection_failed"
    /\ Idle
    /\ audio[ev.id] = "none"

EmptyBinary(r) == r.fetch /\ r.ok /\ ~r.json /\ r.bytes = 0

\* C10: a successful binary response of zero bytes sets ErrorState, and the
\* request is never handed to playback.
C10_EmptyBinaryFails ==
  /\ (ev.op = "webhook" /\ EmptyBinary(ev.arg)) =>
       (error = "connection_failed" /\ calls[ev.id] = "failed")
  /\ \A c \in CallIds : calls[c] = "failed" => (audio[c] = "none" /\ c \notin spoke)

\* a zero-byte binary response has been handled
C10_Witness ==
  /\ ev.op = "webhook" /\ EmptyBinary(ev.arg)
  /\ error = "connection_failed" /\ ~isProcessing
  /\ audio[ev.id] = "none"

\* a successful JSON response whose audio field holds valid base64
JsonAudio(r) == r.fetch /\ r.ok /\ r.json /\ r.text = "object" /\ r.audio = "base64"

C12_Cancellable ==
  /\ \A c \in cancelledCalls : audio[c] \notin {"loading", "playing"}
  /\ \A i \in cancelledStarts : starts[i] # "done"

\* C13: handling a recognition error classified as aborted leaves ErrorState
\* exactly as it was and runs the stop path (Listening left, level reset,
\* the watchdog the controller holds cancelled, recognizer not running).
C13_AbortedKeepsError ==
  [][(ev'.op = "recError" /\ ev'.arg = "aborted") =>
       ( /\ error' = error
         /\ ~isListening' /\ audioLevel' = 0
         /\ timerRef \notin timers'
         /\ recognition' # "running" )]_vars

\* the aborted error that follows the watchdog's abort() has been handled
\* and the watchdog's message is still shown
C13_Witness ==
  /\ ev.op = "recError" /\ ev.arg = "aborted"
  /\ error = "time_limit" /\ ~isListening

\* an aborted error handled while no error was shown
C13_WitnessNull ==
  /\ ev.op = "recError" /\ ev.arg = "aborted"
  /\ error = "null" /\ ~isListening

\* C14: when startInteraction has entered Listening, ErrorState is null and
\* Transcript is the empty string.
C14_StartResets ==
  (ev.op = "start" /\ isListening) => (error = "null" /\ transcript = "")

\* The Transcript half of C14 on its own: it fails in a single sequential
\* session too, since no handler ever sets Transcript back to "".
C14_TranscriptCleared ==
  (ev.op = "start" /\ isListening) => transcript = ""

\* the handlers that call stopInteraction without handing a transcript over:
\* the tap, the sampler's silence branch, onerror and the watchdog
StopEvents == {"stop", "vad", "recError", "watchdog"}

\* C15: stopInteraction called in Listening (nothing else active, one sampler
\* loop at most) with no transcript handed over stops the recognizer and the
\* sampler, cancels the watchdog, sets AudioLevel to 0 and leaves the
\* controller Idle; and with the stream stopped AudioLevel stays 0 while the
\* controller is not Listening.
C15_StopFromListening ==
  [][ /\ (ev'.op \in StopEvents /\ isListening /\ ~isProcessing /\ ~isPlaying
                                /\ Cardinality(frames) <= 1) =>
            ( /\ recognition' # "running"
              /\ frames' = {}
              /\ timers' = {}
              /\ audioLevel' = 0
              /\ Idle' )
      /\ (audioLevel = 0 /\ ~isListening /\ ~isListening'
                         /\ (streamRef # 0 => stream[streamRef] = "stopped")) => audioLevel' = 0
    ]_vars

\* C16: after stopInteraction, whoever called it (the tap, onresult, onerror,
\* the watchdog or the sampler's own silence branch), no animation frame of
\* the sampler remains scheduled.  Stated for a state with one sampler loop.
C16_SamplerStopped ==
  [][(ev'.op \in StopEvents \cup {"final"} /\ Cardinality(frames) <= 1) => frames' = {}]_vars

\* C17: with no webhook URL configured no request is ever issued and no
\* playback is ever invoked, and a final transcript leaves ErrorState set and
\* Processing cleared.
C17_MissingUrlFails ==
  webhookUrl = "" =>
    /\ \A c \in CallIds : calls[c] = "none" /\ audio[c] = "none"
    /\ spoke = {} /\ ~isPlaying
    /\ ev.op = "final" => (error = "connection_failed" /\ ~isProcessing)

\* a final transcript was handled with no URL configured
C17_Witness ==
  /\ webhookUrl = "" /\ ev.op = "final" /\ transcript = FinalText
  /\ error = "connection_failed" /\ ~isProcessing

\* C18: a successful response declared application/json is decided in this
\* order: an empty body is EmptyServerResponse; else a base64 audio field is
\* decoded and played, whether or not message / error is present too; else a
\* message / error field is ServerReportedError; else MissingAudioField.
\* Every failing case sets ErrorState and creates no playback.
C18_JsonDecisionOrder ==
  (ev.op = "webhook" /\ ev.arg.fetch /\ ev.arg.ok /\ ev.arg.json) =>
    LET r == ev.arg
        k == classifyResponse(r)
    IN /\ r.text = "empty" => k = "EmptyServerResponse"
       /\ (r.text = "object" /\ r.audio = "base64") =>
            ( /\ k = "audio"
              /\ calls[ev.id] = "played" /\ audio[ev.id] = "loading"
              /\ ev.id \in spoke /\ audioPlayerRef = ev.id )
       /\ (r.text = "object" /\ r.audio = "absent" /\ r.message) => k = "ServerReportedError"
       /\ (r.text = "object" /\ r.audio = "absent" /\ ~r.message) => k = "MissingAudioField"
       /\ k # "audio" =>
            ( /\ error = "connection_failed" /\ ~isProcessing
              /\ calls[ev.id] = "failed" /\ audio[ev.id] = "none"
              /\ ev.id \notin spoke )

\* a JSON body with both audio and message was played
C18_Witness ==
  /\ ev.op = "webhook" /\ JsonAudio(ev.arg) /\ ev.arg.message
  /\ calls[ev.id] = "played" /\ audio[ev.id] = "loading" /\ isPlaying

\* a JSON body with a message and no audio failed
C18_WitnessMessage ==
  /\ ev.op = "webhook" /\ ev.arg.fetch /\ ev.arg.ok /\ ev.arg.json
  /\ ev.arg.text = "object" /\ ev.arg.audio = "absent" /\ ev.arg.message
  /\ calls[ev.id] = "failed" /\ error = "connection_failed"

\* C19: decoding the base64 encoding of a byte sequence gives back the same
\* bytes, in length and order, and a non-empty payload for non-empty bytes.
C19_Base64RoundTrip ==
  b64pc = "decoded" =>
    /\ Len(blob) = Len(bytes)
    /\ \A i \in 1..Len(bytes) : blob[i] = bytes[i]
    /\ bytes # << >> => blob # << >>

\* a payload of full length with a padded tail went through the round trip
C19_Witness ==
  /\ b64pc = "decoded" /\ Len(bytes) = MaxBytes /\ bytes[MaxBytes] = 255
  /\ base64[Len(base64)] = "=" /\ blob = bytes

\* a tap that ends Speaking and starts an interaction (Listening at once, or
\* a start awaiting the microphone)
TapInterrupts ==
  /\ handleOrbClick
  /\ ~isPlaying'
  /\ isListening' \/ \E i \in StartIds : starts'[i] = "awaitMic"

\* C20: while the controller is Speaking (and rendered as such) a tap on the
\* orb interrupts playback and starts a new interaction.
C20_TapInterruptsSpeaking ==
  (isPlaying /\ ~isListening /\ ~isProcessing /\ ~Dirty /\ FreeStarts # {})
    => ENABLED TapInterrupts

\* C21: a start while Speaking stops playback before Listening is entered:
\* the controller is never Listening while a response is audibly playing.
C21_NoListeningWhilePlaying ==
  ~(isListening /\ \E c \in CallIds : audio[c] = "playing")

\* C22: when startInteraction reaches recognizer start() while the recognizer is
\* already started, the exception does not leave startInteraction: the step ends
\* as a normal start, with Listening entered, the 10 s watchdog armed as the
\* current timer, and no error set.
C22_StartWhileStartedIsCaught ==
  [][(supported /\ recognition # "idle" /\ ev' # ev /\ ev'.op = "start")
       => /\ isListening'
          /\ starts'[ev'.id] = "done"
          /\ timerRef' = ev'.id
          /\ ev'.id \in timers'
          /\ timerLeft'[ev'.id] = WATCHDOG_MS
          /\ error' \in {error, "null"}]_vars

\* a start has just completed although the recognizer was still stopping
C22_Witness ==
  /\ ev.op = "start"
  /\ recognition = "stopping"
  /\ isListening
  /\ ev.id \in timers /\ timerLeft[ev.id] = WATCHDOG_MS

\* C23: each trigger_automation call the gateway has come to is forwarded as
\* exactly one POST whose body is the call's arguments; a JSON result of the
\* webhook is relayed as one tool response with the call's id and name and that
\* result; the calls of one message are handled in order, each after the
\* previous one was answered.
C23_ToolCallForwarded ==
  LET Trig == { t \in { [h |-> h, k |-> k] : h \in 1..Len(gwMessages), k \in 1..MaxToolCalls } :
                  /\ t.k <= Len(gwMessages[t.h].functionCalls)
                  /\ gwMessages[t.h].functionCalls[t.k].name = "trigger_automation" }
      CallOf(t) == gwMessages[t.h].functionCalls[t.k]
      Begun(t) == gwPc[t.h].at = "done" \/ gwPc[t.h].i >= t.k
      PostsFor(id) == { j \in 1..Len(posts) : posts[j].for = id }
      ResponsesFor(id) == { j \in 1..Len(toolResponses) : toolResponses[j].id = id }
  IN /\ \A j \in 1..Len(posts) :
          \E t \in Trig : CallOf(t).id = posts[j].for /\ posts[j].body = CallOf(t).args
     /\ \A t \in Trig :
          Cardinality(PostsFor(CallOf(t).id)) = IF Begun(t) THEN 1 ELSE 0
     /\ \A t \in Trig :
          webhookReplies[CallOf(t).id] \in WebhookResults
            => /\ Cardinality(ResponsesFor(CallOf(t).id)) = 1
               /\ \A j \in ResponsesFor(CallOf(t).id) :
                    toolResponses[j] = [name |-> CallOf(t).name, id |-> CallOf(t).id,
                                        response |-> [result |-> webhookReplies[CallOf(t).id]]]
     /\ \A t, u \in Trig :
          (t.h = u.h /\ t.k < u.k /\ PostsFor(CallOf(u).id) # {})
            => /\ ResponsesFor(CallOf(t).id) # {}
               /\ \A a \in PostsFor(CallOf(t).id), b \in PostsFor(CallOf(u).id) : a < b

\* one message carried two trigger_automation calls with different arguments,
\* the webhook answered them with different results and both were relayed
C23_Witness ==
  /\ Len(gwMessages) >= 1 /\ Len(gwMessages[1].functionCalls) = 2
  /\ gwPc[1].at = "done"
  /\ gwMessages[1].functionCalls[1].args # gwMessages[1].functionCalls[2].args
  /\ webhookReplies[1] = "queued" /\ webhookReplies[2] = "done"
  /\ Len(toolResponses) >= 2

\* call `id` was received as a trigger_automation call
Received(id) ==
  \E h \in 1..Len(gwMessages) : \E k \in 1..Len(gwMessages[h].functionCalls) :
    /\ gwMessages[h].functionCalls[k].id = id
    /\ gwMessages[h].functionCalls[k].name = "trigger_automation"

\* the tool responses sent for call `id`
Answers(id) == { j \in 1..Len(toolResponses) : toolResponses[j].id = id }

\* at most one tool response per call, and it is the one the webhook's reply calls for
AnsweredOnce ==
  \A id \in 1..(MaxMessages * MaxToolCalls) :
    /\ Cardinality(Answers(id)) <= 1
    /\ Answers(id) # {} => Received(id)
    /\ \A j \in Answers(id) :
         /\ toolResponses[j].name = "trigger_automation"
         /\ toolResponses[j].response =
              IF webhookReplies[id] \in WebhookResults
              THEN [result |-> webhookReplies[id]]
              ELSE [error |-> "Failed to execute automation"]
         /\ webhookReplies[id] # "none"
    /\ (webhookReplies[id] # "none") => Answers(id) # {}

\* C29: every trigger_automation call eventually gets exactly one tool
\* response: the webhook's result, or the error "Failed to execute automation"
\* when the request or its JSON parsing failed; and a step that answers a call
\* leaves the client connection as it was.
C29_EveryToolCallAnswered ==
  /\ []AnsweredOnce
  /\ []<>(\A id \in 1..(MaxMessages * MaxToolCalls) : Received(id) => Answers(id) # {})
  /\ [][toolResponses' # toolResponses => clientOpen' = clientOpen]_vars

\* the first call failed at the webhook and was answered with the error, and a
\* call of the next message was then forwarded and answered with a result, the
\* client still being connected
C29_Witness ==
  /\ Len(toolResponses) = 2 /\ clientOpen
  /\ webhookReplies[1] \in {"rejected", "unparsable"}
  /\ toolResponses[1] = [name |-> "trigger_automation", id |-> 1,
                         response |-> [error |-> "Failed to execute automation"]]
  /\ toolResponses[2].id = MaxToolCalls + 1
  /\ toolResponses[2].response = [result |-> "queued"]
  /\ posts[2].for = MaxToolCalls + 1

\* C24: the watchdog is a single timer, armed only on entering Listening and
\* disarmed on every exit: no timer is pending while the controller is not
\* Listening (so none can fire while Idle, Processing or Speaking), and at most
\* one timer is pending at any time.
C24_WatchdogOnlyWhileListening ==
  /\ ~isListening => timers = {}
  /\ Cardinality(timers) <= 1

\* C25: AudioLevel stays within [0,1]: under level' = level*0.8 + (rms*8)*0.2
\* with rms in [0,1] and the level starting at 0, the level (in units of
\* 1/SCALE) never exceeds SCALE and never goes below 0.
C25_LevelWithinUnit == 0 <= level /\ level <= SCALE

\* C26: after the watchdog expired and aborted recognition, the speech of that
\* session is never processed as a command: until the recognizer is started
\* again no webhook call is issued and Processing is not entered, whatever
\* result or error event the recognizer still delivers.
C26_NoCommandAfterExpiry ==
  [][(abortPending /\ recognition = "idle")
       => /\ isProcessing' => isProcessing
          /\ \A c \in CallIds : calls'[c] = "inflight" => calls[c] = "inflight"]_vars

\* C27: when getUserMedia is rejected during startInteraction, the controller
\* ends Idle with ErrorState "Microphone access denied.", and that call starts
\* neither the recognizer nor the amplitude sampler and arms no watchdog.
C27_MicDeniedEndsIdle ==
  [][(ev' # ev /\ ev'.op = "micDenied")
       => /\ error' = "mic_denied"
          /\ Idle'
          /\ recognition' = recognition
          /\ frames' = frames /\ stream' = stream
          /\ timers' = timers /\ timerLeft' = timerLeft]_vars

\* C28: a final transcript the recognizer delivers after stopInteraction has
\* run (the recognizer was only told to stop, the controller is Idle) is still
\* forwarded: with a webhook configured, exactly one webhook call is issued for
\* it and the controller goes from Idle to Processing without a new
\* startInteraction.
C28_LateFinalForwarded ==
  [][(ev' # ev /\ ev'.op = "final" /\ ev'.arg = "afterStop" /\ webhookUrl # "")
       => /\ Idle /\ recognition = "stopping"
          /\ isProcessing' /\ ~isListening' /\ ~isPlaying'
          /\ calls[ev'.id] = "none"
          /\ calls' = [calls EXCEPT ![ev'.id] = "inflight"]
          /\ starts' = starts]_vars

\* the final transcript of a stopped session has just been forwarded
C28_Witness ==
  /\ ev.op = "final" /\ ev.arg = "afterStop"
  /\ isProcessing /\ ~isListening /\ ~isPlaying
  /\ calls[ev.id] = "inflight"
  /\ transcript = FinalText
====
